---- MODULE Spec2Model ----
(***************************************************************************)
(* A model of scrlst.py: the directory (batch) mode of main, the output    *)
(* path resolver, the metadata probe, the timestamp sampler, the frame     *)
(* extraction loop and the compositor of create_thumbnail.                 *)
(*                                                                         *)
(* External tools are the environment: every ffprobe / ffmpeg call is a    *)
(* nondeterministic choice among the results the code distinguishes.       *)
(***************************************************************************)
EXTENDS Integers, Sequences, FiniteSets, TLC

(* Python's optional values: None, or the value in a one-element tuple. *)
None == <<>>
Some(x) == <<x>>
Val(o) == o[1]

(***************************************************************************)
(* Settings (scrlst.py:14-27).  The grid is instantiated at 2 x 2 (the     *)
(* shipped default is 4 x 4): every formula below is stated for            *)
(* THUMBS_PER_ROW x THUMBS_PER_COL, whatever their values.                 *)
(***************************************************************************)
VIDEO_EXTS == {".mp4", ".mkv", ".avi", ".mov", ".wmv", ".flv", ".webm"}
THUMBS_PER_ROW == 2
THUMBS_PER_COL == 2

(* Bounds of the environment. *)
MaxIdx == 1        \* sheets base, base_1 .. base_MaxIdx may exist at start
MaxStale == 1      \* shot files an interrupted earlier run may have left
MaxDuration == 3   \* durations ffprobe reports, in units of 2^-1074 s

total_shots == THUMBS_PER_ROW * THUMBS_PER_COL
Slots == 0 .. (total_shots - 1)
Cells == (0 .. (THUMBS_PER_COL - 1)) \X (0 .. (THUMBS_PER_ROW - 1))

(***************************************************************************)
(* Paths.  A path is its stem (a sequence of tokens) and its suffix, which *)
(* is what with_suffix / with_stem read and replace.                       *)
(***************************************************************************)
with_suffix(p, suffix) == [stem |-> p.stem, suffix |-> suffix]
with_stem(p, stem) == [stem |-> stem, suffix |-> p.suffix]

(* str.lower on the suffixes that occur in the listing. *)
lower(s) == CASE s = ".MKV" -> ".mkv"
              [] s = ".MP4" -> ".mp4"
              [] OTHER -> s

(* The directory listing main iterates over (folder.iterdir()). *)
Files == << [stem |-> <<"a">>, suffix |-> ".mp4"],
            [stem |-> <<"n">>, suffix |-> ".txt"],
            [stem |-> <<"a">>, suffix |-> ".MKV"] >>
FileIds == 1 .. Len(Files)

IsVideo(file) == lower(file.suffix) \in VIDEO_EXTS
OutFile(file) == with_suffix(file, ".jpg")

(***************************************************************************)
(* resolve_output_path (scrlst.py:150-168).  exists is the set of paths    *)
(* for which Path.exists() answers True.                                   *)
(***************************************************************************)
NextCandidateChained(base_path, candidate, idx) ==
    with_stem(candidate, candidate.stem \o <<"_", idx>>)

NextCandidate(base_path, candidate, idx) ==
    with_stem(candidate, base_path.stem \o <<"_", idx>>)

RECURSIVE AppendIndexLoop(_, _, _, _)
AppendIndexLoop(base_path, candidate, idx, exists) ==
    IF candidate \in exists
    THEN AppendIndexLoop(base_path, NextCandidate(base_path, candidate, idx),
                         idx + 1, exists)
    ELSE candidate

SkipIfExistsNever(base_path, exists) == Some(base_path)

SkipIfExists(base_path, exists) ==
    IF base_path \in exists THEN None ELSE Some(base_path)

resolve_output_path(base_path, exists, overwrite) ==
    IF overwrite = 1 THEN Some(base_path)
    ELSE IF overwrite = -1 THEN SkipIfExists(base_path, exists)
    ELSE Some(AppendIndexLoop(base_path, base_path, 1, exists))

(***************************************************************************)
(* run_ffprobe (scrlst.py:100-141).  o is what the two ffprobe calls       *)
(* answer: whether the first call ran, the parsed stream fields (None when *)
(* a field does not parse) and the parsed format duration (None when the   *)
(* second call fails or its output does not parse).                        *)
(***************************************************************************)
Falsy(x) == x = None \/ x = Some(0)

DurationValues == {None} \cup {Some(d) : d \in 0 .. MaxDuration}

ProbeOutcomes ==
    [ran : BOOLEAN, width : {None, Some(640)}, height : {None, Some(360)},
     streamDur : DurationValues, fmtDur : DurationValues]

run_ffprobe(o) ==
    IF ~o.ran
    THEN [width |-> None, height |-> None, dur |-> None]
    ELSE [width |-> o.width, height |-> o.height,
          dur |-> IF Falsy(o.streamDur) THEN o.fmtDur ELSE o.streamDur]

(***************************************************************************)
(* The timestamp list (scrlst.py:177-179).  Durations are counted in units *)
(* of 2^-1074 s, the spacing of the doubles below 2^-1021: there a double  *)
(* is an integer number of units, the quotient duration / (total_shots+1)  *)
(* is rounded to the nearest unit (ties to even) and the products          *)
(* step * (i+1) are exact.                                                 *)
(***************************************************************************)
RoundDiv(a, b) ==
    LET q == a \div b
        r == a % b
    IN  IF 2 * r < b THEN q
        ELSE IF 2 * r > b THEN q + 1
        ELSE IF q % 2 = 0 THEN q ELSE q + 1

Timestamps(dur) ==
    LET step == RoundDiv(dur, total_shots + 1)
    IN  [k \in 1 .. total_shots |-> step * k]

divmod(a, b) == <<a \div b, a % b>>

(***************************************************************************)
(* State.                                                                  *)
(***************************************************************************)
VARIABLES
    OVERWRITE,    \* the configured mode: 1, 0 or -1
    fs,           \* existing sheet paths |-> who wrote them (0: before the run)
    tempExists,   \* _thumbs_temp exists
    tempFiles,    \* slot |-> who wrote shot_<slot>.jpg (0: absent, -1: earlier run)
    pc,           \* "iter", "probe", "extract", "save", "exit"
    next,         \* position of main's for loop in Files
    cur,          \* the file create_thumbnail was last called for (0: none)
    resolved,     \* output_path of that call
    hist,         \* file |-> the stages it went through
    duration,     \* create_thumbnail's locals
    timestamps,
    i,
    images,
    warned,       \* slots for which the "[!] ffmpeg ..." line was printed
    results,      \* slot |-> what ffmpeg did there
    sheet,        \* cell |-> the image pasted, or Background
    ffmpegCalls,  \* file |-> number of ffmpeg runs
    probeCalls    \* file |-> number of run_ffprobe calls

vars == <<OVERWRITE, fs, tempExists, tempFiles, pc, next, cur, resolved, hist,
          duration, timestamps, i, images, warned, results, sheet,
          ffmpegCalls, probeCalls>>

Background == [slot |-> -1, owner |-> 0]
Pending == [rc |-> -1, wrote |-> FALSE]
NoTempFiles == [s \in Slots |-> 0]
BlankSheet == [c \in Cells |-> Background]

(* base for k = 0, base_k otherwise. *)
IndexedFrom(base_path, k) ==
    IF k = 0 THEN base_path
    ELSE with_stem(base_path, base_path.stem \o <<"_", k>>)

InitialSheets == {IndexedFrom(OutFile(Files[1]), k) : k \in 0 .. MaxIdx}

Init ==
    /\ OVERWRITE \in {1, 0, -1}
    /\ \E S \in SUBSET InitialSheets : fs = [p \in S |-> 0]
    /\ tempExists \in BOOLEAN
    /\ \E k \in 0 .. MaxStale :
          /\ tempExists \/ k = 0
          /\ tempFiles = [s \in Slots |-> IF s < k THEN -1 ELSE 0]
    /\ pc = "iter"
    /\ next = 1
    /\ cur = 0
    /\ resolved = None
    /\ hist = [f \in FileIds |-> <<"Discovered">>]
    /\ duration = None
    /\ timestamps = <<>>
    /\ i = 0
    /\ images = <<>>
    /\ warned = {}
    /\ results = [s \in Slots |-> Pending]
    /\ sheet = BlankSheet
    /\ ffmpegCalls = [f \in FileIds |-> 0]
    /\ probeCalls = [f \in FileIds |-> 0]

Locals == <<duration, timestamps, i, images, warned, results, sheet>>
Disk == <<fs, tempExists, tempFiles>>

Push(f, stages) == [hist EXCEPT ![f] = @ \o stages]

(***************************************************************************)
(* main, directory mode (scrlst.py:271-278).                               *)
(***************************************************************************)
SkipNonVideo ==
    /\ pc = "iter"
    /\ next <= Len(Files)
    /\ ~IsVideo(Files[next])
    /\ next' = next + 1
    /\ UNCHANGED <<OVERWRITE, Disk, pc, cur, resolved, hist, Locals,
                   ffmpegCalls, probeCalls>>

SkipByPolicyAfterProbe ==
    /\ pc = "iter"
    /\ next <= Len(Files)
    /\ IsVideo(Files[next])
    /\ resolve_output_path(OutFile(Files[next]), DOMAIN fs, OVERWRITE) = None
    /\ hist' = Push(next, <<"Probed", "PathResolved", "Skipped">>)
    /\ probeCalls' = [probeCalls EXCEPT ![next] = @ + 1]
    /\ next' = next + 1
    /\ UNCHANGED <<OVERWRITE, Disk, pc, cur, resolved, Locals, ffmpegCalls>>

SkipByPolicy ==
    /\ pc = "iter"
    /\ next <= Len(Files)
    /\ IsVideo(Files[next])
    /\ resolve_output_path(OutFile(Files[next]), DOMAIN fs, OVERWRITE) = None
    /\ hist' = Push(next, <<"PathResolved", "Skipped">>)
    /\ next' = next + 1
    /\ UNCHANGED <<OVERWRITE, Disk, pc, cur, resolved, Locals,
                   ffmpegCalls, probeCalls>>

StartVideo ==
    /\ pc = "iter"
    /\ next <= Len(Files)
    /\ IsVideo(Files[next])
    /\ LET r == resolve_output_path(OutFile(Files[next]), DOMAIN fs, OVERWRITE)
       IN  /\ r # None
           /\ resolved' = r
    /\ cur' = next
    /\ hist' = Push(next, <<"PathResolved">>)
    /\ pc' = "probe"
    /\ duration' = None
    /\ timestamps' = <<>>
    /\ i' = 0
    /\ images' = <<>>
    /\ warned' = {}
    /\ results' = [s \in Slots |-> Pending]
    /\ sheet' = BlankSheet
    /\ UNCHANGED <<OVERWRITE, Disk, next, ffmpegCalls, probeCalls>>

Finish ==
    /\ pc = "iter"
    /\ next > Len(Files)
    /\ pc' = "exit"
    /\ UNCHANGED <<OVERWRITE, Disk, next, cur, resolved, hist, Locals,
                   ffmpegCalls, probeCalls>>

(***************************************************************************)
(* create_thumbnail (scrlst.py:170-233).                                   *)
(***************************************************************************)
ProbeUnobtainable ==
    /\ pc = "probe"
    /\ \E o \in ProbeOutcomes :
          /\ Falsy(run_ffprobe(o).dur)
          /\ duration' = run_ffprobe(o).dur
    /\ probeCalls' = [probeCalls EXCEPT ![cur] = @ + 1]
    /\ hist' = Push(cur, <<"Probed", "Skipped">>)
    /\ pc' = "iter"
    /\ next' = next + 1
    /\ UNCHANGED <<OVERWRITE, Disk, cur, resolved, timestamps, i, images,
                   warned, results, sheet, ffmpegCalls>>

ProbeOk ==
    /\ pc = "probe"
    /\ \E o \in ProbeOutcomes :
          /\ ~Falsy(run_ffprobe(o).dur)
          /\ duration' = run_ffprobe(o).dur
          /\ timestamps' = Timestamps(Val(run_ffprobe(o).dur))
    /\ probeCalls' = [probeCalls EXCEPT ![cur] = @ + 1]
    /\ tempExists' = TRUE
    /\ images' = <<>>
    /\ i' = 0
    /\ hist' = Push(cur, <<"Probed">>)
    /\ pc' = "extract"
    /\ UNCHANGED <<OVERWRITE, fs, tempFiles, next, cur, resolved, warned,
                   results, sheet, ffmpegCalls>>

(* One iteration of the loop over timestamps (scrlst.py:185-202): ffmpeg   *)
(* exits with rc and has, or has not, written shot_<i>.jpg.                *)
ExtractFrame ==
    /\ pc = "extract"
    /\ i < total_shots
    /\ \E rc \in {0, 1}, wrote \in BOOLEAN :
          LET files == IF wrote THEN [tempFiles EXCEPT ![i] = cur]
                       ELSE tempFiles
          IN  /\ tempFiles' = files
              /\ results' = [results EXCEPT ![i] = [rc |-> rc, wrote |-> wrote]]
              /\ IF rc # 0
                 THEN /\ warned' = warned \cup {i}
                      /\ images' = images
                 ELSE /\ warned' = warned
                      /\ images' = IF files[i] # 0
                                   THEN Append(images,
                                               [slot |-> i, owner |-> files[i]])
                                   ELSE images
    /\ ffmpegCalls' = [ffmpegCalls EXCEPT ![cur] = @ + 1]
    /\ i' = i + 1
    /\ UNCHANGED <<OVERWRITE, fs, tempExists, pc, next, cur, resolved, hist,
                   duration, timestamps, sheet, probeCalls>>

FailNoFramesAbort ==
    /\ pc = "extract"
    /\ i = total_shots
    /\ images = <<>>
    /\ hist' = Push(cur, <<"FramesExtracted", "Failed">>)
    /\ pc' = "exit"
    /\ UNCHANGED <<OVERWRITE, Disk, next, cur, resolved, Locals,
                   ffmpegCalls, probeCalls>>

FailNoFrames ==
    /\ pc = "extract"
    /\ i = total_shots
    /\ images = <<>>
    /\ hist' = Push(cur, <<"FramesExtracted", "Failed">>)
    /\ pc' = "iter"
    /\ next' = next + 1
    /\ UNCHANGED <<OVERWRITE, Disk, cur, resolved, Locals,
                   ffmpegCalls, probeCalls>>

(* The paste loop (scrlst.py:225-229): the idx-th image of the list goes   *)
(* to (row, col) = divmod(idx, THUMBS_PER_ROW).                            *)
Paste(imgs) ==
    [c \in Cells |->
        IF \E idx \in 0 .. (Len(imgs) - 1) : divmod(idx, THUMBS_PER_ROW) = c
        THEN imgs[(CHOOSE idx \in 0 .. (Len(imgs) - 1) :
                       divmod(idx, THUMBS_PER_ROW) = c) + 1]
        ELSE Background]

Composite ==
    /\ pc = "extract"
    /\ i = total_shots
    /\ images # <<>>
    /\ sheet' = Paste(images)
    /\ hist' = Push(cur, <<"FramesExtracted", "Composited">>)
    /\ pc' = "save"
    /\ UNCHANGED <<OVERWRITE, Disk, next, cur, resolved, duration, timestamps,
                   i, images, warned, results, ffmpegCalls, probeCalls>>

Save ==
    /\ pc = "save"
    /\ fs' = [p \in (DOMAIN fs) \cup {Val(resolved)} |->
                 IF p = Val(resolved) THEN cur ELSE fs[p]]
    /\ tempExists' = FALSE
    /\ tempFiles' = NoTempFiles
    /\ hist' = Push(cur, <<"Persisted">>)
    /\ pc' = "iter"
    /\ next' = next + 1
    /\ UNCHANGED <<OVERWRITE, cur, resolved, Locals, ffmpegCalls, probeCalls>>

Next ==
    \/ SkipNonVideo
    \/ SkipByPolicy
    \/ StartVideo
    \/ Finish
    \/ ProbeUnobtainable
    \/ ProbeOk
    \/ ExtractFrame
    \/ FailNoFrames
    \/ Composite
    \/ Save

Spec == Init /\ [][Next]_vars

(* main's loop and create_thumbnail run to completion: no step waits. *)
FairSpec == Spec /\ WF_vars(Next)

(***************************************************************************)
(* Vocabulary of the properties.                                           *)
(***************************************************************************)
Last(h) == h[Len(h)]
Terminal == {"Persisted", "Skipped", "Failed"}
Videos == {f \in FileIds : IsVideo(Files[f])}

(* create_thumbnail has returned for cur and nothing was started since. *)
Returned == cur # 0 /\ pc \in {"iter", "exit"} /\ Last(hist[cur]) \in Terminal

(* A frame was recorded for slot s of the current video. *)
Recorded(s) == \E k \in 1 .. Len(images) : images[k].slot = s

(* ffmpeg was run for slot s of the current video. *)
Ran(s) == results[s] # Pending

PolicySkipped(f) == hist[f] = <<"Discovered", "PathResolved", "Skipped">>

SpecOrder == <<"Discovered", "Probed", "PathResolved", "FramesExtracted",
               "Composited", "Persisted">>
CodeOrder == <<"Discovered", "PathResolved", "Probed", "FramesExtracted",
               "Composited", "Persisted">>

(* h follows order without going back, up to one of the three exits. *)
Linear(h, order) ==
    \E n \in 1 .. Len(order) :
        \/ h = SubSeq(order, 1, n)
        \/ /\ h = SubSeq(order, 1, n) \o <<"Skipped">>
           /\ order[n] \in {"PathResolved", "Probed"}
        \/ /\ h = SubSeq(order, 1, n) \o <<"Failed">>
           /\ order[n] = "FramesExtracted"

(***************************************************************************)
(* C1.  On a composited sheet the frame recorded for slot s sits in cell   *)
(* divmod(s, columns) and the cell of every slot without a frame is        *)
(* background: no frame is moved into the cell of an earlier failed slot.  *)
(***************************************************************************)
C1_NoReflow ==
    (cur # 0 /\ Last(hist[cur]) \in {"Composited", "Persisted"}) =>
        \A s \in Slots :
            IF Recorded(s)
            THEN sheet[divmod(s, THUMBS_PER_ROW)].slot = s
            ELSE sheet[divmod(s, THUMBS_PER_ROW)] = Background

(***************************************************************************)
(* C2.  When create_thumbnail returns after having made the temporary      *)
(* directory (the video Persisted or Failed), the directory is gone.       *)
(***************************************************************************)
C2_TempRemoved ==
    (Returned /\ Last(hist[cur]) \in {"Persisted", "Failed"}) => ~tempExists

(***************************************************************************)
(* C3.  With OVERWRITE = 0 the resolved path is the first path that does   *)
(* not exist in the order base, base_1, base_2, ...: it is base_k built on *)
(* the base stem, every earlier one exists and it does not exist itself.   *)
(***************************************************************************)
C3_AppendIndex ==
    (pc = "probe" /\ OVERWRITE = 0) =>
        LET base == OutFile(Files[cur])
        IN  /\ Val(resolved) \notin DOMAIN fs
            /\ \E k \in 0 .. Cardinality(DOMAIN fs) :
                  /\ Val(resolved) = IndexedFrom(base, k)
                  /\ \A j \in 0 .. (k - 1) : IndexedFrom(base, j) \in DOMAIN fs

C3_Witness ==
    /\ pc = "probe"
    /\ OVERWRITE = 0
    /\ Val(resolved) = IndexedFrom(OutFile(Files[cur]), 2)

(***************************************************************************)
(* C4.  With OVERWRITE = -1, a video whose base sheet exists is skipped:   *)
(* the resolver answers None, the step runs neither ffprobe nor ffmpeg and *)
(* leaves every file as it is, and nothing is ever extracted or written    *)
(* for that video afterwards; when the base sheet does not exist the       *)
(* resolver answers the base path.                                         *)
(***************************************************************************)
C4_SkipIfExists ==
    [][ /\ (pc = "iter" /\ next <= Len(Files) /\ IsVideo(Files[next])
               /\ OVERWRITE = -1) =>
            IF OutFile(Files[next]) \in DOMAIN fs
            THEN /\ resolve_output_path(OutFile(Files[next]), DOMAIN fs,
                                        OVERWRITE) = None
                 /\ hist'[next] = <<"Discovered", "PathResolved", "Skipped">>
                 /\ pc' = "iter"
                 /\ next' = next + 1
                 /\ UNCHANGED <<Disk, ffmpegCalls, probeCalls>>
            ELSE /\ resolved' = Some(OutFile(Files[next]))
                 /\ pc' = "probe"
        /\ \A f \in FileIds : PolicySkipped(f) =>
              /\ ffmpegCalls'[f] = 0
              /\ probeCalls'[f] = 0
              /\ \A p \in DOMAIN fs' : fs'[p] # f
      ]_vars

C4_Witness ==
    /\ OVERWRITE = -1
    /\ pc = "exit"
    /\ \E f \in Videos : PolicySkipped(f)
    /\ \E f \in Videos : Last(hist[f]) = "Persisted"

(***************************************************************************)
(* C5.  For a duration > 0 the timestamp list has total_shots entries, the *)
(* k-th equal to k * duration / (total_shots + 1), strictly increasing,    *)
(* each strictly between 0 and the duration.                               *)
(***************************************************************************)
C5_Timestamps ==
    (cur # 0 /\ ~Falsy(duration)) =>
        /\ Len(timestamps) = total_shots
        /\ \A k \in 1 .. total_shots :
              /\ timestamps[k] * (total_shots + 1) = k * Val(duration)
              /\ 0 < timestamps[k]
              /\ timestamps[k] < Val(duration)
        /\ \A k \in 1 .. (total_shots - 1) : timestamps[k] < timestamps[k + 1]

(***************************************************************************)
(* C6.  A sheet is written for a video only if ffmpeg produced at least    *)
(* one frame of it; a video that ends Skipped or Failed has written        *)
(* nothing at its resolved path.                                           *)
(***************************************************************************)
C6_WrittenOnlyWithFrame ==
    /\ (cur # 0 /\ Last(hist[cur]) = "Persisted") =>
          \E s \in Slots : results[s].rc = 0 /\ results[s].wrote
    /\ (Returned /\ Last(hist[cur]) \in {"Skipped", "Failed"}) =>
          \A p \in DOMAIN fs : fs[p] # cur

C8_FailedSlotWarned ==
    pc = "extract" =>
        \A s \in Slots :
            (Ran(s) /\ (results[s].rc # 0 \/ tempFiles[s] = 0)) =>
                (s \in warned /\ ~Recorded(s))

C10_NoScratchLeak ==
    /\ \A k \in 1 .. Len(images) : images[k].owner = cur
    /\ \A c \in Cells : sheet[c].owner \in {0, cur}
    /\ (pc = "extract" /\ i = 0) => tempFiles = NoTempFiles

====
